---- MODULE Spec2Model ----
(***************************************************************************)
(* Model of eurus (src/main.rs): the `dns` and `traefik` subcommands, the  *)
(* shared config.json cache and the compose manifest that `traefik`        *)
(* patches.                                                                *)
(*                                                                         *)
(* Strings are sequences of tokens (a token is an atomic piece of text),   *)
(* so that format!("{}={}") is real concatenation and u16 parsing and      *)
(* to_string work on digits.  Sum types of the compose library are records *)
(* with a `tag` field.  The manifest file is held as the parsed document;  *)
(* the YAML codec itself is a library and is not modelled.                 *)
(***************************************************************************)
EXTENDS Integers, Sequences, FiniteSets, TLC

\* ------------------------------------------------------------------------
\* Bounds of the model
\* ------------------------------------------------------------------------
MaxRuns == 2

\* ------------------------------------------------------------------------
\* Generic helpers
\* ------------------------------------------------------------------------
None == [tag |-> "None"]

Some(x) == [tag |-> "Some", v |-> x]

EmptyMap == [x \in {} |-> None]

\* IndexMap::insert : add or replace the entry of key k
MapInsert(f, k, v) == [x \in DOMAIN f \cup {k} |-> IF x = k THEN v ELSE f[x]]

\* Vec::contains
contains(s, x) == \E i \in 1..Len(s) : s[i] = x

\* ------------------------------------------------------------------------
\* Label constants of traefik()
\* ------------------------------------------------------------------------
ENABLE_KEY == <<"traefik.enable">>

ENTRYPOINTS_KEY == <<"traefik.http.routers.${COMPOSE_PROJECT_NAME}.entrypoints">>

TLS_KEY == <<"traefik.http.routers.${COMPOSE_PROJECT_NAME}.tls">>

STATIC_LABELS ==
    { [key |-> ENABLE_KEY, value |-> <<"true">>],
      [key |-> ENTRYPOINTS_KEY, value |-> <<"websecure">>],
      [key |-> TLS_KEY, value |-> <<"true">>] }

RULE_LABEL == <<"traefik.http.routers.${COMPOSE_PROJECT_NAME}.rule">>

CERT_RESOLVER_LABEL == <<"traefik.http.routers.${COMPOSE_PROJECT_NAME}.tls.certresolver">>

TRAEFIK_NETWORK_LABEL == <<"traefik.docker.network">>

TRAEFIK_SERVICE_PORT_LABEL ==
    <<"traefik.http.services.${COMPOSE_PROJECT_NAME}.loadbalancer.server.port">>

\* ------------------------------------------------------------------------
\* u16 parsing and printing
\* ------------------------------------------------------------------------
U16_MAX == 65535

Digits == <<"0", "1", "2", "3", "4", "5", "6", "7", "8", "9">>

IsDigit(c) == \E d \in 1..10 : Digits[d] = c

DigitVal(c) == (CHOOSE d \in 1..10 : Digits[d] = c) - 1

\* checked accumulation of decimal digits: -1 stands for Err
RECURSIVE ParseDigits(_, _)
ParseDigits(t, acc) ==
    IF t = <<>> THEN acc
    ELSE IF ~IsDigit(Head(t)) THEN -1
    ELSE LET n == acc * 10 + DigitVal(Head(t))
         IN  IF n > U16_MAX THEN -1 ELSE ParseDigits(Tail(t), n)

\* digits accumulated with wrapping arithmetic: -1 stands for Err
RECURSIVE WrapDigits(_, _)
WrapDigits(t, acc) ==
    IF t = <<>> THEN acc
    ELSE IF ~IsDigit(Head(t)) THEN -1
    ELSE WrapDigits(Tail(t), (acc * 10 + DigitVal(Head(t))) % (U16_MAX + 1))

\* parse_u16 with the overflow check lost: the value wraps around 2^16
parse_u16_wrapping(t) ==
    LET body == IF t # <<>> /\ Head(t) = "+" THEN Tail(t) ELSE t
        n == IF body = <<>> THEN -1 ELSE WrapDigits(body, 0)
    IN  IF n < 0 THEN None ELSE Some(n)

\* str::parse::<u16>: an optional leading "+", then one or more digits,
\* no overflow.  Result is None (Err) or Some(n).
parse_u16(t) ==
    LET body == IF t # <<>> /\ Head(t) = "+" THEN Tail(t) ELSE t
        n == IF body = <<>> THEN -1 ELSE ParseDigits(body, 0)
    IN  IF n < 0 THEN None ELSE Some(n)

\* u16::to_string: canonical decimal digits
RECURSIVE to_string(_)
to_string(n) ==
    IF n < 10 THEN <<Digits[n + 1]>>
    ELSE to_string(n \div 10) \o <<Digits[(n % 10) + 1]>>

\* ------------------------------------------------------------------------
\* Labels
\* ------------------------------------------------------------------------
LabelsList(l) == [tag |-> "List", l |-> l]

LabelsMap(m) == [tag |-> "Map", m |-> m]

\* format!("{}={}", key, value)
format_label(key, value) == key \o <<"=">> \o value

\* add_or_ignore_label without the `contains` / `contains_key` tests
add_or_ignore_label_always(labels, key, value) ==
    IF labels.tag = "List"
    THEN LabelsList(Append(labels.l, format_label(key, value)))
    ELSE LabelsMap(MapInsert(labels.m, key, value))

add_or_ignore_label(labels, key, value) ==
    IF labels.tag = "List"
    THEN LET label == format_label(key, value)
         IN  IF ~contains(labels.l, label)
             THEN LabelsList(Append(labels.l, label))
             ELSE labels
    ELSE IF key \notin DOMAIN labels.m
         THEN LabelsMap(MapInsert(labels.m, key, value))
         ELSE labels

\* the calls of add_or_ignore_label of one run, in program order
RECURSIVE MergeLabels(_, _)
MergeLabels(labels, ds) ==
    IF ds = <<>> THEN labels
    ELSE MergeLabels(add_or_ignore_label(labels, Head(ds).key, Head(ds).value),
                     Tail(ds))

\* iteration orders of the STATIC_LABELS hash map
StaticOrders ==
    { s \in [1..3 -> STATIC_LABELS] : \A i, j \in 1..3 : i # j => s[i] # s[j] }

\* the directives of one run: static labels (in hash-map order), rule,
\* cert resolver, network and, if a port was given, the port
Directives(order, rule, tls, network, port) ==
    order
    \o << [key |-> RULE_LABEL, value |-> rule],
          [key |-> CERT_RESOLVER_LABEL, value |-> <<tls>>],
          [key |-> TRAEFIK_NETWORK_LABEL, value |-> <<network>>] >>
    \o ( IF port.tag = "Some"
         THEN << [key |-> TRAEFIK_SERVICE_PORT_LABEL, value |-> to_string(port.v)] >>
         ELSE <<>> )

\* ------------------------------------------------------------------------
\* Networks
\* ------------------------------------------------------------------------
Empty == [tag |-> "Empty"]

ExternalBool(b) == [tag |-> "Bool", b |-> b]

ExternalDetailed(n) == [tag |-> "Detailed", name |-> n]

NetworkSettings(driver, external) ==
    [tag |-> "Map", driver |-> driver, external |-> external]

\* NetworkSettings { ..Default::default() }
DefaultNetworkSettings == NetworkSettings(None, None)

\* get or make the network settings of the traefik network
GetNetwork(networks, name) ==
    IF name \in DOMAIN networks
    THEN IF networks[name].tag = "Empty" THEN DefaultNetworkSettings
         ELSE networks[name]
    ELSE DefaultNetworkSettings

\* SetExternal that leaves an `external` that is already set
SetExternal_if_unset(network) ==
    IF network.external.tag = "None"
    THEN [network EXCEPT !.external = Some(ExternalBool(TRUE))]
    ELSE network

\* network.external = Some(ComposeNetwork::Bool(true))
SetExternal(network) == [network EXCEPT !.external = Some(ExternalBool(TRUE))]

NetworksSimple(a) == [tag |-> "Simple", a |-> a]

NetworksAdvanced(a) == [tag |-> "Advanced", a |-> a]

\* AttachNetwork that attaches nothing
AttachNetwork_skipped(nets, name) == nets

\* match &mut service.networks { Simple => push if absent, Advanced => insert }
AttachNetwork(nets, name) ==
    IF nets.tag = "Simple"
    THEN IF ~contains(nets.a, name)
         THEN NetworksSimple(Append(nets.a, name))
         ELSE nets
    ELSE NetworksAdvanced(MapInsert(nets.a, name, Empty))

\* ------------------------------------------------------------------------
\* The document
\* ------------------------------------------------------------------------
Service(image, labels, networks) ==
    [tag |-> "Some", image |-> image, labels |-> labels, networks |-> networks]

Doc(version, services, networks) ==
    [tag |-> "Doc", version |-> version, services |-> services,
     networks |-> networks]

\* InsertService that replaces the whole table by the one service
InsertService_only(services, name, service) == MapInsert(EmptyMap, name, service)

\* compose.services.0.insert(selected_service.clone(), Some(service))
InsertService(services, name, service) == MapInsert(services, name, service)

\* compose.networks.0.insert(config.traefik_network.clone(), MapOrEmpty::Map(network))
InsertNetwork(networks, name, network) == MapInsert(networks, name, network)

\* lines 360-422 of traefik(): the in-memory mutation of the document
PatchCompose(compose, selected, ds, network_name) ==
    LET service == compose.services[selected]
        labels == MergeLabels(service.labels, ds)
        network == SetExternal(GetNetwork(compose.networks, network_name))
        nets == AttachNetwork(service.networks, network_name)
        patched == [service EXCEPT !.labels = labels, !.networks = nets]
    IN  [compose EXCEPT
           !.networks = InsertNetwork(compose.networks, network_name, network),
           !.services = InsertService(compose.services, selected, patched)]

\* ------------------------------------------------------------------------
\* State
\* ------------------------------------------------------------------------
VARIABLES
    config,            \* contents of config.json ([tag |-> "Err"]: missing or malformed)
    manifest,          \* contents of the compose file
    pc,                \* position of the running process
    status,            \* how the last process ended
    runs,              \* number of processes started so far
    conf,              \* traefik()/dns(): the Config in memory
    compose,           \* traefik(): the parsed document
    selected_service,  \* traefik(): the selected service name
    rule,              \* traefik(): the rule entered
    port,              \* traefik(): Option<u16>
    text,              \* traefik(): the last answer of the port prompt
    domain,            \* dns(): the selected zone
    domains,           \* dns(): the listed records
    subdomain,         \* dns(): the subdomain entered
    answered,          \* dns(): record type and target were entered
    requests,          \* dns(): the API requests sent and how each was answered
    manifest0,         \* history: the compose file when the process started
    config0,           \* history: config.json when the process started
    failed,            \* history: some process so far ended with an error
    writes,            \* history: writes of the compose file by this process
    last,              \* history: inputs and result of the last successful patch
    same               \* history: the last patch repeated the one before it

vars == << config, manifest, pc, status, runs, conf, compose, selected_service,
           rule, port, text, domain, domains, subdomain, answered,
           requests, manifest0, config0, failed, writes, last,
           same >>

traefikLocals == << compose, selected_service, rule, port, text >>

dnsLocals == << domain, domains, subdomain, answered, requests >>

files == << config, manifest >>

starts == << manifest0, config0 >>

history == << last, same >>

\* ------------------------------------------------------------------------
\* Config
\* ------------------------------------------------------------------------
ConfigErr == [tag |-> "Err"]

Config(zones, key, network, tls) ==
    [tag |-> "Ok", zones |-> zones, cloudflare_key |-> key,
     traefik_network |-> network, traefik_tls |-> tls]

\* Config { ..Default::default() }
DefaultConfig == Config(<<>>, "", "", "")

\* get_config(): the parsed file, or Err when it is missing or malformed
get_config(file) == file

\* ------------------------------------------------------------------------
\* Answers of the operator and documents on disk
\* ------------------------------------------------------------------------
NetworkAnswers == {"edge"}

TlsAnswers == {"le"}

RuleAnswers == { <<"Host(a)">> }

PortTexts == { <<"None">>, <<"8", "0">>, <<"6", "5", "5", "3", "6">> }

MorePortTexts ==
    { <<"+", "8", "0">>, <<"0", "8", "0">>, <<"0">>, <<"6", "5", "5", "3", "5">>,
      <<"-", "1">>, <<"8", "x">>, <<>>, <<"+">>, <<"n", "o", "n", "e">>,
      <<"9", "9", "9", "9", "9", "9">> }

ApiKeys == {"k1"}

ZoneIds == {"z1"}

ZoneName == "example.com"

RecordLists ==
    { <<>>,
      << [name |-> "app", id |-> "r1"], [name |-> "api", id |-> "r2"] >>,
      << [name |-> "api", id |-> "r2"], [name |-> "app", id |-> "r3"],
         [name |-> "app", id |-> "r1"] >> }

SubdomainAnswers == {"app", "App", "new"}

\* how the API answers a request: a result and no errors, a non-empty
\* errors array, no errors and a null result, or no parsable response
Answers == {"ok", "errors", "null", "fail"}

OldRule == format_label(RULE_LABEL, <<"Host(old)">>)

LabelChoices ==
    { LabelsList(<<>>),
      LabelsList(<< format_label(ENABLE_KEY, <<"false">>), OldRule,
                    <<"com.example.tier", "=", "front">> >>),
      LabelsMap(EmptyMap),
      LabelsMap(MapInsert(MapInsert(EmptyMap, ENABLE_KEY, <<"false">>),
                          TRAEFIK_SERVICE_PORT_LABEL, <<"9", "0">>)) }

AttachChoices ==
    { NetworksSimple(<<"back">>),
      NetworksSimple(<<"edge", "back">>),
      NetworksAdvanced(EmptyMap),
      NetworksAdvanced(MapInsert(EmptyMap, "edge",
                                 [tag |-> "Map", aliases |-> <<"web">>])) }

NetworkTables ==
    { EmptyMap,
      MapInsert(MapInsert(EmptyMap, "edge", Empty),
                "back", NetworkSettings(None, Some(ExternalBool(TRUE)))),
      MapInsert(MapInsert(EmptyMap, "edge", NetworkSettings(Some("bridge"), None)),
                "back", Empty),
      MapInsert(EmptyMap, "edge",
                NetworkSettings(Some("bridge"), Some(ExternalBool(FALSE)))),
      MapInsert(EmptyMap, "edge",
                NetworkSettings(None, Some(ExternalDetailed("proxy")))) }

WebChoices ==
    {None} \cup { Service("nginx", l, n) : l \in LabelChoices, n \in AttachChoices }

DbService == Service("postgres", LabelsMap(EmptyMap), NetworksSimple(<<"back">>))

ServiceTables ==
    { MapInsert(EmptyMap, "web", w) : w \in WebChoices }
    \cup { MapInsert(MapInsert(EmptyMap, "web", w), "db", DbService) :
             w \in WebChoices }

Documents == { Doc("3.8", s, n) : s \in ServiceTables, n \in NetworkTables }

ManifestMissing == [tag |-> "Missing"]

ManifestInvalid == [tag |-> "Invalid"]

NoPatch == [tag |-> "None"]

\* ------------------------------------------------------------------------
\* Process start and exit
\* ------------------------------------------------------------------------
InitLocals ==
    /\ pc = "start"
    /\ status = "none"
    /\ runs = 0
    /\ conf = None
    /\ compose = None
    /\ selected_service = None
    /\ rule = None
    /\ port = None
    /\ text = None
    /\ domain = None
    /\ domains = None
    /\ subdomain = None
    /\ answered = FALSE
    /\ requests = <<>>
    /\ manifest0 = manifest
    /\ config0 = config
    /\ failed = FALSE
    /\ writes = 0
    /\ last = NoPatch
    /\ same = FALSE

Init ==
    /\ config = ConfigErr
    /\ manifest \in Documents \cup {ManifestMissing, ManifestInvalid}
    /\ InitLocals

\* the process ends: its locals are gone
Exit(how) ==
    /\ pc' = "exit"
    /\ status' = how
    /\ failed' = (failed \/ how # "ok")
    /\ conf' = None
    /\ compose' = None
    /\ selected_service' = None
    /\ rule' = None
    /\ port' = None
    /\ text' = None
    /\ domain' = None
    /\ domains' = None
    /\ subdomain' = None
    /\ answered' = FALSE

\* main(): `eurus traefik [file]`
MainTraefik ==
    /\ pc \in {"start", "exit"}
    /\ runs < MaxRuns
    /\ runs' = runs + 1
    /\ pc' = "t_config"
    /\ status' = "running"
    /\ manifest0' = manifest
    /\ config0' = config
    /\ writes' = 0
    /\ requests' = <<>>
    /\ UNCHANGED << files, conf, traefikLocals, domain, domains, subdomain,
                    answered, failed, history >>

\* ------------------------------------------------------------------------
\* traefik()
\* ------------------------------------------------------------------------
\* lines 278-308: read the config, prompt for what is missing, write it back
TraefikConfig ==
    /\ pc = "t_config"
    /\ \E network \in NetworkAnswers, tls \in TlsAnswers :
         LET got == get_config(config)
             c == IF got.tag = "Ok"
                  THEN [got EXCEPT
                          !.traefik_network =
                              IF got.traefik_network = "" THEN network ELSE @,
                          !.traefik_tls =
                              IF got.traefik_tls = "" THEN tls ELSE @]
                  ELSE [DefaultConfig EXCEPT !.traefik_network = network,
                                             !.traefik_tls = tls]
         IN  /\ config' = c
             /\ conf' = c
    /\ pc' = "t_open"
    /\ UNCHANGED << manifest, status, failed, runs, traefikLocals, dnsLocals,
                    starts, writes, history >>

\* a prompt of lines 281-296 returns an error: nothing is written
TraefikConfigFail ==
    /\ pc = "t_config"
    /\ LET got == get_config(config)
       IN  IF got.tag = "Err" THEN TRUE
           ELSE got.traefik_network = "" \/ got.traefik_tls = ""
    /\ Exit("prompt")
    /\ UNCHANGED << files, runs, requests, starts, writes, history >>

\* lines 310-327: find, read and parse the compose file
TraefikOpen ==
    /\ pc = "t_open"
    /\ IF manifest.tag = "Missing"
       THEN Exit("no_file") /\ UNCHANGED requests
       ELSE IF manifest.tag = "Invalid"
       THEN Exit("invalid_yaml") /\ UNCHANGED requests
       ELSE /\ compose' = manifest
            /\ pc' = "t_select"
            /\ UNCHANGED << status, failed, conf, selected_service, rule,
                            port, text, dnsLocals >>
    /\ UNCHANGED << files, runs, starts, writes, history >>

\* the services offered by the Select prompt (line 329)
SelectableServices(c) ==
    { s \in DOMAIN c.services : c.services[s].tag = "Some" }

\* lines 329-340: select a service and look it up
TraefikSelect ==
    /\ pc = "t_select"
    /\ IF SelectableServices(compose) = {}
       THEN Exit("no_options") /\ UNCHANGED requests
       ELSE \E s \in SelectableServices(compose) :
              IF s \notin DOMAIN compose.services
              THEN Exit("no_service") /\ UNCHANGED requests
              ELSE /\ selected_service' = Some(s)
                   /\ pc' = "t_rule"
                   /\ UNCHANGED << status, failed, conf, compose, rule, port,
                                   text, dnsLocals >>
    /\ UNCHANGED << files, runs, starts, writes, history >>

TraefikSelectFail ==
    /\ pc = "t_select"
    /\ SelectableServices(compose) # {}
    /\ Exit("prompt")
    /\ UNCHANGED << files, runs, requests, starts, writes, history >>

\* line 342: the rule editor
TraefikRule ==
    /\ pc = "t_rule"
    /\ \E r \in RuleAnswers : rule' = Some(r)
    /\ pc' = "t_port"
    /\ UNCHANGED << files, status, failed, runs, conf, compose,
                    selected_service, port, text, dnsLocals, starts, writes,
                    history >>

TraefikRuleFail ==
    /\ pc = "t_rule"
    /\ Exit("prompt")
    /\ UNCHANGED << files, runs, requests, starts, writes, history >>

\* lines 348-355: what one answer of the port prompt does: leave the loop
\* with a port, or go round again
PortMatch(answer) ==
    IF answer.tag = "None" THEN [break |-> TRUE, port |-> None]
    ELSE IF answer.v = <<"None">> THEN [break |-> TRUE, port |-> None]
    ELSE IF parse_u16(answer.v).tag = "Some"
         THEN [break |-> TRUE, port |-> parse_u16(answer.v)]
         ELSE [break |-> FALSE, port |-> None]

\* lines 343-356: one turn of the port loop, the answer drawn from `texts`
\* or skipped
PortTurn(texts) ==
    /\ pc = "t_port"
    /\ \E answer \in {None} \cup { Some(t) : t \in texts } :
         LET m == PortMatch(answer)
         IN  /\ text' = answer
             /\ port' = m.port
             /\ pc' = IF m.break THEN "t_patch" ELSE "t_port"
    /\ UNCHANGED << files, status, failed, runs, conf, compose,
                    selected_service, rule, dnsLocals, starts, writes,
                    history >>

TraefikPort == PortTurn(PortTexts)

TraefikPortAny == PortTurn(PortTexts \cup MorePortTexts)

TraefikPortFail ==
    /\ pc = "t_port"
    /\ Exit("prompt")
    /\ UNCHANGED << files, runs, requests, starts, writes, history >>

\* line 358: ensure!(service.is_some())
ServiceIsSome(c, s) == s \in DOMAIN c.services /\ c.services[s].tag = "Some"

\* lines 358-424: patch the document in memory and write the file
TraefikPatch ==
    /\ pc = "t_patch"
    /\ IF ~ServiceIsSome(compose, selected_service.v)
       THEN /\ Exit("no_service")
            /\ UNCHANGED << manifest, writes, history >>
       ELSE \E order \in StaticOrders :
              LET ds == Directives(order, rule.v, conf.traefik_tls,
                                   conf.traefik_network, port)
                  out == PatchCompose(compose, selected_service.v, ds,
                                      conf.traefik_network)
                  inputs == [service |-> selected_service.v,
                             network |-> conf.traefik_network,
                             tls |-> conf.traefik_tls,
                             rule |-> rule.v, port |-> port]
              IN  /\ manifest' = out
                  /\ writes' = writes + 1
                  /\ same' = ( /\ last.tag = "Some"
                               /\ last.inputs = inputs
                               /\ last.after = manifest )
                  /\ last' = [tag |-> "Some", inputs |-> inputs, ds |-> ds,
                              before |-> compose, after |-> out]
                  /\ Exit("ok")
    /\ UNCHANGED << config, runs, requests, starts >>

TraefikNext ==
    \/ MainTraefik
    \/ TraefikConfig
    \/ TraefikConfigFail
    \/ TraefikOpen
    \/ TraefikSelect
    \/ TraefikSelectFail
    \/ TraefikRule
    \/ TraefikRuleFail
    \/ TraefikPortFail
    \/ TraefikPatch

\* ------------------------------------------------------------------------
\* dns()
\* ------------------------------------------------------------------------
\* main(): `eurus dns`
MainDns ==
    /\ pc \in {"start", "exit"}
    /\ runs < MaxRuns
    /\ runs' = runs + 1
    /\ pc' = "d_config"
    /\ status' = "running"
    /\ manifest0' = manifest
    /\ config0' = config
    /\ writes' = 0
    /\ requests' = <<>>
    /\ UNCHANGED << files, conf, traefikLocals, domain, domains, subdomain,
                    answered, failed, history >>

\* main(): no command or an unknown one
MainBail ==
    /\ pc \in {"start", "exit"}
    /\ runs < MaxRuns
    /\ runs' = runs + 1
    /\ manifest0' = manifest
    /\ config0' = config
    /\ writes' = 0
    /\ requests' = <<>>
    /\ Exit("usage")
    /\ UNCHANGED << files, traefikLocals, history >>

Request(method, path, id, name, answer, result) ==
    [method |-> method, path |-> path, id |-> id, name |-> name,
     answer |-> answer, result |-> result]

\* lines 154-172: use the cached config, or get an api key for a new one
DnsConfig ==
    /\ pc = "d_config"
    /\ LET got == get_config(config)
       IN  IF got.tag = "Ok"
           THEN IF got.zones = <<>>
                THEN /\ conf' = [tag |-> "Key", cloudflare_key |-> got.cloudflare_key]
                     /\ pc' = "d_zone"
                ELSE /\ conf' = got
                     /\ pc' = "d_select"
           ELSE \E api_key \in ApiKeys :
                  /\ conf' = [tag |-> "Key", cloudflare_key |-> api_key]
                  /\ pc' = "d_zone"
    /\ UNCHANGED << files, status, failed, runs, traefikLocals, dnsLocals,
                    starts, writes, history >>

\* lines 163-169: CF_API_KEY is unset and the prompt returns an error
DnsConfigFail ==
    /\ pc = "d_config"
    /\ get_config(config).tag = "Err"
    /\ Exit("prompt")
    /\ UNCHANGED << files, runs, traefikLocals, requests, starts, writes,
                    history >>

\* the Config that prompt_new_zone_config builds (lines 137-144)
NewZoneConfig(zone_id, name, api_key) ==
    [DefaultConfig EXCEPT !.zones = << [id |-> zone_id, name |-> name] >>,
                          !.cloudflare_key = api_key]

\* prompt_new_zone_config(): ask for the zone id, look the zone up, write
\* the new config
DnsZone ==
    /\ pc = "d_zone"
    /\ \E zone_id \in ZoneIds, answer \in Answers :
         /\ requests' = Append(requests,
                               Request("GET", "zone", Some(zone_id), None, answer,
                                       None))
         /\ IF answer = "ok"
            THEN LET c == NewZoneConfig(zone_id, ZoneName, conf.cloudflare_key)
                 IN  /\ config' = c
                     /\ conf' = c
                     /\ pc' = "d_select"
                     /\ UNCHANGED << status, failed, domain, domains,
                                     subdomain, answered >>
            ELSE /\ Exit(CASE answer = "errors" -> "api_error"
                           [] answer = "null" -> "panic"
                           [] OTHER -> "http")
                 /\ UNCHANGED config
    /\ UNCHANGED << manifest, runs, traefikLocals, starts, writes, history >>

DnsZoneFail ==
    /\ pc = "d_zone"
    /\ Exit("prompt")
    /\ UNCHANGED << files, runs, traefikLocals, requests, starts, writes,
                    history >>

\* line 174: select one of the cached zones
DnsSelect ==
    /\ pc = "d_select"
    /\ \E i \in 1..Len(conf.zones) : domain' = Some(conf.zones[i])
    /\ pc' = "d_list"
    /\ UNCHANGED << files, status, failed, runs, conf, traefikLocals, domains,
                    subdomain, answered, requests, starts, writes, history >>

DnsSelectFail ==
    /\ pc = "d_select"
    /\ Exit("prompt")
    /\ UNCHANGED << files, runs, traefikLocals, requests, starts, writes,
                    history >>

\* lines 176-186: list the records of the zone
DnsList ==
    /\ pc = "d_list"
    /\ \E answer \in Answers, records \in RecordLists :
         LET result == IF answer = "ok" THEN Some(records) ELSE None
         IN  /\ requests' = Append(requests,
                                   Request("GET", "dns_records", None, None,
                                           answer, result))
             /\ IF answer = "ok"
                THEN /\ domains' = Some(records)
                     /\ pc' = "d_subdomain"
                     /\ UNCHANGED << status, failed, conf, domain, subdomain,
                                     answered >>
                ELSE Exit(CASE answer = "errors" -> "api_error"
                            [] answer = "null" -> "panic"
                            [] OTHER -> "http")
    /\ UNCHANGED << files, runs, traefikLocals, starts, writes, history >>

\* lines 190-192: the subdomain prompt
DnsSubdomain ==
    /\ pc = "d_subdomain"
    /\ \E name \in SubdomainAnswers : subdomain' = Some(name)
    /\ pc' = "d_record"
    /\ UNCHANGED << files, status, failed, runs, conf, traefikLocals, domain,
                    domains, answered, requests, starts, writes, history >>

DnsSubdomainFail ==
    /\ pc = "d_subdomain"
    /\ Exit("prompt")
    /\ UNCHANGED << files, runs, traefikLocals, requests, starts, writes,
                    history >>

\* lines 194-199: the record type and target prompts
DnsRecord ==
    /\ pc = "d_record"
    /\ answered' = TRUE
    /\ pc' = "d_send"
    /\ UNCHANGED << files, status, failed, runs, conf, traefikLocals, domain,
                    domains, subdomain, requests, starts, writes, history >>

DnsRecordFail ==
    /\ pc = "d_record"
    /\ Exit("prompt")
    /\ UNCHANGED << files, runs, traefikLocals, requests, starts, writes,
                    history >>

\* lines 201-204: domains.iter().find(|d| d.name == subdomain)
FindRecord(records, name) ==
    IF \E i \in 1..Len(records) : records[i].name = name
    THEN Some(records[CHOOSE i \in 1..Len(records) :
                        /\ records[i].name = name
                        /\ \A j \in 1..(i - 1) : records[j].name # name])
    ELSE None

\* MutatingRequest that always creates
MutatingRequest_always_post(info, name, answer) ==
    Request("POST", "dns_records", None, Some(name), answer, None)

\* lines 214-232: the request that updates or creates the record
MutatingRequest(info, name, answer) ==
    IF info.tag = "Some"
    THEN Request("PATCH", "dns_records", Some(info.v.id), Some(name), answer, None)
    ELSE Request("POST", "dns_records", None, Some(name), answer, None)

\* lines 201-241: update the record found, or create one
DnsSend ==
    /\ pc = "d_send"
    /\ \E answer \in Answers :
         LET info == FindRecord(domains.v, subdomain.v)
         IN  /\ requests' = Append(requests,
                                   MutatingRequest(info, subdomain.v, answer))
             /\ Exit(CASE answer = "errors" -> "api_error"
                       [] answer = "fail" -> "http"
                       [] OTHER -> "ok")
    /\ UNCHANGED << files, runs, traefikLocals, starts, writes, history >>

DnsNext ==
    \/ MainDns
    \/ MainBail
    \/ DnsConfig
    \/ DnsConfigFail
    \/ DnsZone
    \/ DnsZoneFail
    \/ DnsSelect
    \/ DnsSelectFail
    \/ DnsList
    \/ DnsSubdomain
    \/ DnsSubdomainFail
    \/ DnsRecord
    \/ DnsRecordFail
    \/ DnsSend

\* ------------------------------------------------------------------------
\* Specifications
\* ------------------------------------------------------------------------
\* `eurus traefik` run repeatedly on every document of Documents
Next == TraefikNext \/ TraefikPort

Spec == Init /\ [][Next]_vars

\* the document the command-line specification starts from
CliDocument ==
    Doc("3.8",
        MapInsert(EmptyMap, "web",
                  Service("nginx", LabelsList(<<>>), NetworksSimple(<<>>))),
        EmptyMap)

InitCli ==
    /\ config = ConfigErr
    /\ manifest = CliDocument
    /\ InitLocals

\* both subcommands run in any order on one config file and one document
NextCli == DnsNext \/ TraefikNext \/ TraefikPortAny

SpecCli == InitCli /\ [][NextCli]_vars

\* the operator eventually answers the port prompt with something that
\* leaves the loop
SpecFair == SpecCli /\ WF_vars(TraefikPortAny /\ pc' # "t_port")

\* ------------------------------------------------------------------------
\* Vocabulary of the properties
\* ------------------------------------------------------------------------
\* the part of a `key=value` label before its first "="
RECURSIVE KeyOf(_)
KeyOf(label) ==
    IF label = <<>> \/ Head(label) = "=" THEN <<>>
    ELSE <<Head(label)>> \o KeyOf(Tail(label))

\* the part of a `key=value` label after its first "=" (empty without one)
ValueOf(label) ==
    LET k == Len(KeyOf(label))
    IN  IF k >= Len(label) THEN <<>> ELSE SubSeq(label, k + 2, Len(label))

\* the values the labels hold for a key
LabelValues(labels, key) ==
    IF labels.tag = "List"
    THEN { ValueOf(labels.l[i]) :
             i \in { j \in 1..Len(labels.l) : KeyOf(labels.l[j]) = key } }
    ELSE IF key \in DOMAIN labels.m THEN { labels.m[key] } ELSE {}

\* how often a sequence holds x
Occurrences(s, x) == Cardinality({ i \in 1..Len(s) : s[i] = x })

\* a successful patch has happened; `last` describes the latest one
Patched == last.tag = "Some"

ServiceBefore == last.before.services[last.inputs.service]

ServiceAfter == last.after.services[last.inputs.service]

\* the value of a string of decimal digits
RECURSIVE DecimalValue(_)
DecimalValue(t) ==
    IF t = <<>> THEN 0
    ELSE DecimalValue(SubSeq(t, 1, Len(t) - 1)) * 10 + DigitVal(t[Len(t)])

\* the text is an unsigned 16-bit integer: digits after an optional "+"
\* whose value is at most 65535
IsU16Text(t) ==
    LET body == IF t # <<>> /\ t[1] = "+" THEN SubSeq(t, 2, Len(t)) ELSE t
    IN  /\ body # <<>>
        /\ \A i \in 1..Len(body) : IsDigit(body[i])
        /\ DecimalValue(body) <= U16_MAX

U16Value(t) ==
    DecimalValue(IF t[1] = "+" THEN SubSeq(t, 2, Len(t)) ELSE t)

\* ------------------------------------------------------------------------
\* C1: set-if-absent.  For every directive (key, V2) of a patch: a value V
\* that the service's labels held for that key before, different from V2,
\* is still held afterwards, and V2 is not held for that key.
\* ------------------------------------------------------------------------
SetIfAbsent ==
    Patched =>
      \A i \in 1..Len(last.ds) :
        \A V \in LabelValues(ServiceBefore.labels, last.ds[i].key) :
          V # last.ds[i].value =>
            /\ V \in LabelValues(ServiceAfter.labels, last.ds[i].key)
            /\ last.ds[i].value \notin LabelValues(ServiceAfter.labels,
                                                   last.ds[i].key)

\* ------------------------------------------------------------------------
\* C2: network preservation.  A target network that was a settings record
\* keeps every field, and `external` becomes true only if it was unset.
\* ------------------------------------------------------------------------
NetworkPreserved ==
    Patched =>
      LET n == last.inputs.network
          was == last.before.networks
      IN  (n \in DOMAIN was /\ was[n].tag = "Map") =>
            last.after.networks[n] =
              IF was[n].external.tag = "None"
              THEN [was[n] EXCEPT !.external = Some(ExternalBool(TRUE))]
              ELSE was[n]

\* ------------------------------------------------------------------------
\* C3: idempotence.  A patch that repeats the successful patch before it
\* (same service, network, rule, TLS resolver and port) on that patch's
\* output leaves the document as it was.
\* ------------------------------------------------------------------------
Idempotent == same => last.after = last.before

IdempotentWitness ==
    /\ same
    /\ status = "ok"
    /\ ServiceAfter.labels.tag = "List"
    /\ ServiceAfter.networks.tag = "Advanced"

\* ------------------------------------------------------------------------
\* C4: non-interference.  A patch of service S with network N changes no
\* other service and no other network, adds and removes none, and within S
\* only the labels and the attachments.
\* ------------------------------------------------------------------------
NonInterference ==
    Patched =>
      LET b == last.before
          a == last.after
          S == last.inputs.service
          N == last.inputs.network
      IN  /\ DOMAIN a.services = DOMAIN b.services
          /\ \A s \in DOMAIN b.services \ {S} : a.services[s] = b.services[s]
          /\ DOMAIN a.networks \ {N} = DOMAIN b.networks \ {N}
          /\ \A n \in DOMAIN b.networks \ {N} : a.networks[n] = b.networks[n]
          /\ [a.services[S] EXCEPT !.labels = b.services[S].labels,
                                   !.networks = b.services[S].networks]
               = b.services[S]
          /\ a.version = b.version

NonInterferenceWitness ==
    /\ Patched
    /\ status = "ok"
    /\ last.inputs.service = "web"
    /\ "db" \in DOMAIN last.before.services
    /\ "back" \in DOMAIN last.before.networks
    /\ last.after # last.before

\* the target network was attached to the service before the patch
AttachedBefore ==
    IF ServiceBefore.networks.tag = "Simple"
    THEN contains(ServiceBefore.networks.a, last.inputs.network)
    ELSE last.inputs.network \in DOMAIN ServiceBefore.networks.a

\* ------------------------------------------------------------------------
\* C5: attach only if not attached.  After a patch the service lists the
\* target network once, and attachments that already held the target are
\* left as they were.
\* ------------------------------------------------------------------------
AttachOnlyIfAbsent ==
    Patched =>
      /\ IF ServiceAfter.networks.tag = "Simple"
         THEN Occurrences(ServiceAfter.networks.a, last.inputs.network) = 1
         ELSE last.inputs.network \in DOMAIN ServiceAfter.networks.a
      /\ AttachedBefore => ServiceAfter.networks = ServiceBefore.networks

\* ------------------------------------------------------------------------
\* C6: network creation.  After every successful patch the network table
\* holds the target network as a settings record with external = true.
\* ------------------------------------------------------------------------
NetworkCreated ==
    Patched =>
      LET n == last.inputs.network
      IN  /\ n \in DOMAIN last.after.networks
          /\ last.after.networks[n].tag = "Map"
          /\ last.after.networks[n].external = Some(ExternalBool(TRUE))
          /\ (status = "ok" => manifest = last.after)

NetworkCreatedWitness ==
    /\ Patched
    /\ status = "ok"
    /\ last.inputs.network \notin DOMAIN last.before.networks

\* ------------------------------------------------------------------------
\* C7: a failed patch leaves the manifest untouched.  Until `traefik` ends
\* successfully the file is as the process found it; it is written at most
\* once, and what is written holds the merged labels, the resolved network
\* and the attachment.
\* ------------------------------------------------------------------------
WrittenLastAndWhole ==
    /\ writes <= 1
    /\ status # "ok" => (manifest = manifest0 /\ writes = 0)
    /\ status = "ok" =>
         /\ writes = 1
         /\ pc = "exit"
         /\ manifest.tag = "Doc"
         /\ LET svc == manifest.services[last.inputs.service]
                N == last.inputs.network
            IN  /\ svc.tag = "Some"
                /\ \A i \in 1..Len(last.ds) :
                     LabelValues(svc.labels, last.ds[i].key) # {}
                /\ N \in DOMAIN manifest.networks
                /\ IF svc.networks.tag = "Simple"
                   THEN contains(svc.networks.a, N)
                   ELSE N \in DOMAIN svc.networks.a

\* a document whose services are all null placeholders: the run fails at
\* the selection and the file is as it was
FailedPatchWitness ==
    /\ pc = "exit"
    /\ status = "no_options"
    /\ manifest.tag = "Doc"
    /\ \A s \in DOMAIN manifest.services : manifest.services[s].tag = "None"
    /\ manifest = manifest0
    /\ writes = 0

\* ------------------------------------------------------------------------
\* Vocabulary of the dns property
\* ------------------------------------------------------------------------
Mutating ==
    { i \in 1..Len(requests) : requests[i].method \in {"PATCH", "POST"} }

Listings ==
    { i \in 1..Len(requests) :
        requests[i].method = "GET" /\ requests[i].path = "dns_records" }

\* the errors array of the response was empty
NoErrors(r) == r.answer \in {"ok", "null"}

\* the mutating request is the update of a listed record of that name if
\* there is one, and a create otherwise
UpdateOrCreate(listed, r) ==
    LET ids == { listed[j].id : j \in { k \in 1..Len(listed) :
                                          listed[k].name = r.name.v } }
    IN  IF ids # {}
        THEN r.method = "PATCH" /\ r.id.tag = "Some" /\ r.id.v \in ids
        ELSE r.method = "POST" /\ r.id.tag = "None"

\* C8 as claimed: a finished dns run whose listing returned its records and
\* no errors has sent exactly one mutating request
DnsExactlyOneMutation ==
    (pc = "exit" /\ \E i \in Listings : requests[i].answer = "ok")
      => Cardinality(Mutating) = 1

\* C8 as amended: at most one mutating request is ever sent; a finished dns
\* run whose listing returned records and no errors and whose prompts were
\* all answered has sent exactly one, an update of a listed record of the
\* entered name if there is one and a create otherwise; the run ends
\* successfully only if no response carried errors; and a response with
\* errors (or none at all) is the last request of the run, which then ends
\* with an error.
DnsUpdateOrCreate ==
    /\ Cardinality(Mutating) <= 1
    /\ (pc = "exit" /\ status # "prompt") =>
         \A i \in Listings :
           requests[i].answer = "ok" =>
             /\ Cardinality(Mutating) = 1
             /\ Mutating = {Len(requests)}
             /\ UpdateOrCreate(requests[i].result.v, requests[Len(requests)])
    /\ status = "ok" => \A i \in 1..Len(requests) : NoErrors(requests[i])
    /\ \A i \in 1..(Len(requests) - 1) : requests[i].answer = "ok"
    /\ (pc = "exit" /\ \E i \in 1..Len(requests) : requests[i].answer = "errors")
         => status = "api_error"

DnsUpdateWitness ==
    /\ pc = "exit"
    /\ status = "ok"
    /\ Len(requests) >= 2
    /\ requests[Len(requests)].method = "PATCH"
    /\ requests[Len(requests)].id = Some("r3")

\* ------------------------------------------------------------------------
\* Vocabulary of the port loop property
\* ------------------------------------------------------------------------
\* an answer that is no u16 keeps the run in the loop without a port
Reprompted ==
    /\ pc' = "t_port"
    /\ status' = "running"
    /\ text'.tag = "Some"
    /\ text'.v # <<"None">>
    /\ ~IsU16Text(text'.v)
    /\ port' = None

\* the loop is left with the number entered
LeftWithPort ==
    /\ pc' = "t_patch"
    /\ text'.tag = "Some"
    /\ IsU16Text(text'.v)
    /\ port' = Some(U16Value(text'.v))
    /\ port'.v \in 0..U16_MAX

\* the loop is left without a port: the default answer or a skip
LeftWithoutPort ==
    /\ pc' = "t_patch"
    /\ (text' = None \/ text' = Some(<<"None">>))
    /\ port' = None

\* the prompt itself returns an error and the run ends
PromptError ==
    /\ pc' = "exit"
    /\ status' = "prompt"
    /\ manifest' = manifest

\* the port label merged by the patch is the decimal of the port, and
\* there is none without a port
PortLabelMerged ==
    LET ps == { i \in 1..Len(last'.ds) :
                  last'.ds[i].key = TRAEFIK_SERVICE_PORT_LABEL }
    IN  IF port.tag = "Some"
        THEN /\ Cardinality(ps) = 1
             /\ \A i \in ps : /\ IsU16Text(last'.ds[i].value)
                              /\ DecimalValue(last'.ds[i].value) = port.v
        ELSE ps = {}

\* C9 as claimed: the loop is left only by a u16, the default or a skip
PortLoopOnlyLeftByAnswer ==
    [][pc = "t_port" => (Reprompted \/ LeftWithPort \/ LeftWithoutPort)]_vars

\* C9 as amended: a turn of the loop re-prompts on an answer that is no
\* u16, leaves with the number entered, leaves without a port on the
\* default or a skip, or ends the run when the prompt itself fails; the
\* patch merges the port label with exactly that number; and if the
\* operator eventually gives an answer that leaves the loop, the run gets
\* to the patch or ends on a prompt error.
PortLoop ==
    /\ [][pc = "t_port" =>
            (Reprompted \/ LeftWithPort \/ LeftWithoutPort \/ PromptError)]_vars
    /\ [][(pc = "t_patch" /\ status' = "ok") => PortLabelMerged]_vars
    /\ (pc = "t_port") ~> (pc = "t_patch" \/ status = "prompt")

PortLoopWitness ==
    /\ pc = "t_port"
    /\ status = "running"
    /\ text = Some(<<"6", "5", "5", "3", "6">>)
    /\ port = None

ConfigFields == {"traefik_network", "traefik_tls", "cloudflare_key"}

\* ------------------------------------------------------------------------
\* C10: cached config values survive later runs.  When every process so far
\* ended successfully and the last one started with a readable config
\* file, each non-empty value that file held is still in it.
\* ------------------------------------------------------------------------
ConfigValuesKept ==
    (pc = "exit" /\ status = "ok" /\ ~failed /\ config0.tag = "Ok") =>
      /\ config.tag = "Ok"
      /\ \A f \in ConfigFields : config0[f] # "" => config[f] = config0[f]
      /\ config0.zones # <<>> => config.zones = config0.zones

====
